---- MODULE Spec2Model ----
(***************************************************************************)
(* SUMO2GRAL: the orchestration of main(args) in main.py, the shapefile    *)
(* helper create_shapefile, and the collaborators main calls (coordinate   *)
(* conversion, weather slicing, emissions join, GRAL file writers).        *)
(*                                                                         *)
(* Angles are held in hundredths of a degree (10.1 degrees is 1010); the   *)
(* arguments enumerated are whole tenths of a degree, so the halved sum of *)
(* two of them is exact in hundredths.                                     *)
(* An optional value (Python's None or a value; a local not yet bound) is  *)
(* the empty sequence <<>> or the one-element sequence <<v>>.              *)
(***************************************************************************)
EXTENDS Integers, Sequences, FiniteSets, TLC

VARIABLES
    args,                   \* the argument object handed to main
    weather_file,           \* content of args.input_weather_file: the processed series
    emissions_file,         \* content of args.emissions_file: the emission records
    net_file,               \* content of args.net_file: the road segment identifiers
    pc,                     \* position of main
    location,               \* main's local `location`
    location_epsg_new,      \* main's local `location_epsg_new`
    mean_latitude,          \* main's local `mean_latitude`
    met_file_df,            \* main's local `met_file_df`
    day_met_file_df,        \* main's local `day_met_file_df`
    hour_met_file_df,       \* main's local `hour_met_file_df`
    sumo_emissions_df,      \* main's local `sumo_emissions_df`
    highway_gdf,            \* main's local `highway_gdf`
    highway_emissions_gdf,  \* main's local `highway_emissions_gdf`
    calls,                  \* collaborator calls made so far, in call order
    greb_args,              \* arguments create_greb_file was called with
    in_dat_args,            \* arguments create_in_dat_file was called with
    stage_kwargs,           \* names of the arguments handed to each simulator file stage
    map_args,               \* bounding box create_georeferenced_map was called with
    writes,                 \* (series, file name) pairs handed to write_to_files
    disk,                   \* names of the files written so far
    out,                    \* lines printed to standard output
    exc,                    \* the exception in flight inside main's try block
    caught,                 \* the exception main's except clause received
    failed_at,              \* the call that raised it
    shapefile_failed,       \* shapefiles whose write failed inside create_shapefile
    returned                \* how main ended: <<>> running, <<"None">> or <<"raise">>

locals == <<location, location_epsg_new, mean_latitude, met_file_df, day_met_file_df,
            hour_met_file_df, sumo_emissions_df, highway_gdf, highway_emissions_gdf>>
inputs == <<args, weather_file, emissions_file, net_file>>
effects == <<calls, greb_args, in_dat_args, stage_kwargs, map_args, writes, disk, out>>
failure == <<exc, caught, failed_at, shapefile_failed, returned>>
vars == <<inputs, pc, locals, effects, failure>>

----------------------------------------------------------------------------
(* Bounds of the enumerated inputs *)

MaxLen == 3         \* longest weather series enumerated
MaxId == 4          \* road segment identifiers are 1..MaxId

(* Program constants *)

SourceEpsg == 4326          \* the from_epsg main passes to convert_coordinates
ParticlesPs == 500          \* particles_ps handed to create_in_dat_file
DispertionTime == 3600      \* dispertion_time handed to create_in_dat_file
NCores == 12                \* n_cores handed to create_other_txt_requiered_files

Pollutant == "NOx"
HorizontalLayers == <<3, 6, 9, 12, 15>>

----------------------------------------------------------------------------
(* Enumerated input values *)

None == <<>>
Some(v) == <<v>>
Option(S) == {None} \cup {Some(v) : v \in S}

Processes == {"all", "buildings", "weather", "highway", "map", "gral", "other"}

Lats == {1000, 1010, 6000}          \* 10.0, 10.1 and 60.0 degrees north
Lons == {1000, 1010, 2000, 2010}    \* 10.0, 10.1, 20.0 and 20.1 degrees east
UtmEpsg == 32633                    \* UTM zone 33N, the target of the spec's scenario
KnownEpsgs == {SourceEpsg, UtmEpsg}
Epsgs == KnownEpsgs \cup {0}        \* 0: a code no reference system has

Boxes == [north : Lats, south : Lats, east : Lons, west : Lons]
ScenarioBox == [north |-> 1010, south |-> 1000, east |-> 2010, west |-> 2000]
PointBox == [north |-> 1000, south |-> 1000, east |-> 2000, west |-> 2000]

Dates == {1, 2}                     \* 2024-01-01 and 2024-01-02
Hours == {13, 14}
Temps == {0, 1}
Observations == [fecha : Dates, hora : Hours, temp : Temps]

SeqsUpTo(S, n) == UNION {[1..k -> S] : k \in 0..n}

Ids == 1..MaxId
Times == {1, 2}                     \* simulation timesteps
EmissionRecords == [osmid : Ids, t : Times]
(* a segment's records run over the timesteps from the first on *)
EmissionTables ==
    {e \in SUBSET EmissionRecords :
        \A r \in e : r.t > 1 => [osmid |-> r.osmid, t |-> r.t - 1] \in e}

(* The inputs enumerated for each process value: the arguments and files a   *)
(* process value does not read stay at one value.                            *)
DefaultInputs ==
    [box |-> ScenarioBox, epsg |-> UtmEpsg, weather_day |-> None, weather_hour |-> None,
     weather_file |-> <<>>, emissions_file |-> {}, net_file |-> {}]

InputsOf(process) ==
    CASE process \in {"map", "gral"} ->
            {[DefaultInputs EXCEPT !.box = b, !.epsg = e] : b \in Boxes, e \in Epsgs}
      [] process = "weather" ->
            {[DefaultInputs EXCEPT !.weather_day = d, !.weather_hour = h, !.weather_file = w] :
                d \in Option(Dates), h \in Option(Hours),
                w \in SeqsUpTo(Observations, MaxLen)}
      [] process = "highway" ->
            {[DefaultInputs EXCEPT !.emissions_file = e, !.net_file = n] :
                e \in EmissionTables, n \in SUBSET Ids}
      [] process = "all" ->
            {[box |-> b, epsg |-> e, weather_day |-> d, weather_hour |-> h,
              weather_file |-> w, emissions_file |-> em, net_file |-> n] :
                b \in {ScenarioBox, PointBox}, e \in Epsgs,
                d \in Option(Dates), h \in Option(Hours),
                w \in SeqsUpTo({o \in Observations : o.temp = 0}, 1),
                em \in SUBSET {r \in EmissionRecords : r.osmid <= 2 /\ r.t = 1},
                n \in {{1}, {2, 3}}}
      [] OTHER -> {DefaultInputs}

Init ==
    /\ \E p \in Processes : \E i \in InputsOf(p) :
          /\ args = [process |-> p, north |-> i.box.north, south |-> i.box.south,
                     east |-> i.box.east, west |-> i.box.west, epsg |-> i.epsg,
                     weather_day |-> i.weather_day, weather_hour |-> i.weather_hour]
          /\ weather_file = i.weather_file
          /\ emissions_file = i.emissions_file
          /\ net_file = i.net_file
    /\ pc = "construct"
    /\ location = None /\ location_epsg_new = None /\ mean_latitude = None
    /\ met_file_df = None /\ day_met_file_df = None /\ hour_met_file_df = None
    /\ sumo_emissions_df = None /\ highway_gdf = None /\ highway_emissions_gdf = None
    /\ calls = <<>> /\ greb_args = None /\ in_dat_args = None /\ map_args = None
    /\ stage_kwargs = <<>>
    /\ writes = <<>> /\ disk = {} /\ out = <<>>
    /\ exc = None /\ caught = None /\ failed_at = None
    /\ shapefile_failed = {} /\ returned = None

----------------------------------------------------------------------------
(* Collaborators of main that live outside main.py *)

(* convert_coordinates(x, y, from_epsg, to_epsg): a point of EPSG 4326 in    *)
(* the target system. The UTM stand-in keeps what matters of a transverse    *)
(* Mercator projection: northing grows with latitude, and easting is the     *)
(* distance from the central meridian (15 degrees east) shrunk as latitude   *)
(* grows, so meridians converge.                                             *)
CentralMeridian == 1500
MeridianScale(y) == 10 - (IF y < 0 THEN -y ELSE y) \div 1000
ConvertCoordinates(x, y, from_epsg, to_epsg) ==
    IF to_epsg = from_epsg THEN <<x, y>>
    ELSE <<(x - CentralMeridian) * MeridianScale(y), 11 * y>>

(* The transform is undefined for a code that names no reference system. *)
ConvertRaises(from_epsg, to_epsg) == ~ {from_epsg, to_epsg} \subseteq KnownEpsgs

(* process_highway_data: one road segment, with its geometry, per identifier *)
Segments(net) == {[osmid |-> i, geometry |-> <<i, i + 1>>] : i \in net}

(* combine_sumo_emissions_and_highway_data: equi-join on the identifier *)
Join(emissions, segments) ==
    {[osmid |-> p[1].osmid, t |-> p[1].t, geometry |-> p[2].geometry] :
        p \in {q \in emissions \X segments : q[1].osmid = q[2].osmid}}

----------------------------------------------------------------------------
(* Slicing, as main does it with boolean masks (lines 77-78 and 82-83) *)

(* the day mask dropped: every record kept *)
SliceByDay_Unfiltered(series, day) == series

SliceByDay(series, day) == SelectSeq(series, LAMBDA r : r.fecha = day)

SliceByHour(day_series, hour) == SelectSeq(day_series, LAMBDA r : r.hora = hour)

(* the mean taken of the projected north and south *)
MeanLatitude_Projected(loc, loc_epsg_new) == (loc_epsg_new.north + loc_epsg_new.south) \div 2

(* mean_latitude, line 138: values are hundredths of a degree and the sums   *)
(* enumerated are even, so the true division by 2 is exact.                  *)
MeanLatitude(loc, loc_epsg_new) == (loc.north + loc.south) \div 2

(* location_epsg_new, lines 107-114 and 123-130 *)
ResolveBoundingBox(loc, epsg) ==
    LET west_north == ConvertCoordinates(loc.west, loc.north, SourceEpsg, epsg)
        east_south == ConvertCoordinates(loc.east, loc.south, SourceEpsg, epsg)
    IN  [north |-> west_north[2], south |-> east_south[2],
         east |-> east_south[1], west |-> west_north[1]]

----------------------------------------------------------------------------
(* Steps of main *)

(* An exception leaves the try block: control goes to the except clause. *)
Raise(call, kind) ==
    /\ pc' = "except"
    /\ exc' = Some(kind)
    /\ failed_at' = Some(call)
    /\ UNCHANGED <<caught, shapefile_failed, returned>>

(* A collaborator call that writes `files` when it returns and may raise. *)
CallWriting(call, files, next) ==
    /\ calls' = Append(calls, call)
    /\ \/ /\ disk' = disk \cup files
          /\ pc' = next
          /\ UNCHANGED failure
       \/ /\ Raise(call, "FileWriteError")
          /\ UNCHANGED disk

(* create_shapefile without its try: the failure reaches main *)
CreateShapefile_Propagates(filename, next) ==
    /\ calls' = Append(calls, "create_shapefile")
    /\ \/ /\ args.epsg \in KnownEpsgs
          /\ disk' = disk \cup {filename}
          /\ out' = Append(out, <<"Creating shapefile...">>)
          /\ pc' = next
          /\ UNCHANGED failure
       \/ /\ out' = Append(out, <<"Creating shapefile...">>)
          /\ Raise("create_shapefile", "FileWriteError")
          /\ UNCHANGED disk

(* create_shapefile(geo_df, coordinate_system, directory, filename): a       *)
(* failure of the reprojection or of the write is caught and printed.        *)
CreateShapefile(filename, next) ==
    /\ calls' = Append(calls, "create_shapefile")
    /\ \/ /\ args.epsg \in KnownEpsgs
          /\ disk' = disk \cup {filename}
          /\ out' = Append(out, <<"Creating shapefile...">>)
          /\ UNCHANGED shapefile_failed
       \/ /\ out' = out \o << <<"Creating shapefile...">>,
                              <<"Failed to create shapefile">> >>
          /\ shapefile_failed' = shapefile_failed \cup {filename}
          /\ UNCHANGED disk
    /\ pc' = next
    /\ UNCHANGED <<exc, caught, failed_at, returned>>

(* lines 43-56: the location dictionary and the five module objects *)
Construct ==
    /\ pc = "construct"
    /\ \/ /\ location' = Some([north |-> args.north, south |-> args.south,
                               east |-> args.east, west |-> args.west])
          /\ pc' = "buildings"
          /\ UNCHANGED failure
       \/ /\ Raise("construct", "Error")
          /\ UNCHANGED location
    /\ UNCHANGED <<inputs, location_epsg_new, mean_latitude, met_file_df, day_met_file_df,
                   hour_met_file_df, sumo_emissions_df, highway_gdf, highway_emissions_gdf,
                   effects>>

(* 'all' made to select the simulator file sequence as well *)
StageOf_AllRunsGral ==
    [buildings |-> {"all", "buildings"}, weather |-> {"all", "weather"},
     highway |-> {"all", "highway"}, map |-> {"all", "map"}, gral |-> {"all", "gral"}]

(* a process value that does not select the stage at pc: the if is skipped *)
StageOf ==
    [buildings |-> {"all", "buildings"}, weather |-> {"all", "weather"},
     highway |-> {"all", "highway"}, map |-> {"all", "map"}, gral |-> {"gral"}]
NextStage ==
    [buildings |-> "weather", weather |-> "highway", highway |-> "map",
     map |-> "gral", gral |-> "return"]
SkipStage ==
    /\ pc \in DOMAIN StageOf
    /\ args.process \notin StageOf[pc]
    /\ pc' = NextStage[pc]
    /\ UNCHANGED <<inputs, locals, effects, failure>>

(* lines 59-60 *)
ProcessBuildings ==
    /\ pc = "buildings"
    /\ args.process \in StageOf.buildings
    /\ CallWriting("process_buildings", {}, "buildings_shp")
    /\ UNCHANGED <<inputs, locals, greb_args, in_dat_args, stage_kwargs, map_args, writes,
                   out>>

(* lines 61-66 *)
BuildingsShapefile ==
    /\ pc = "buildings_shp"
    /\ CreateShapefile("buildings.shp", "weather")
    /\ UNCHANGED <<inputs, locals, greb_args, in_dat_args, stage_kwargs, map_args, writes>>

(* write_to_files(series, name): the series and the file name handed over *)
MetFile(series, day, hour) == [data |-> series, ext |-> "met", day |-> day, hour |-> hour]
CsvFile(series) == [data |-> series, ext |-> "csv", day |-> None, hour |-> None]
WriteToFiles(file, next) ==
    /\ calls' = Append(calls, "write_to_files")
    /\ \/ /\ writes' = Append(writes, file)
          /\ pc' = next
          /\ UNCHANGED failure
       \/ /\ Raise("write_to_files", "FileWriteError")
          /\ UNCHANGED writes

(* lines 69-71: the processed series is what the weather file holds *)
ProcessWeatherData ==
    /\ pc = "weather"
    /\ args.process \in StageOf.weather
    /\ \/ /\ calls' = calls \o <<"process_weather_data", "create_met_file">>
          /\ met_file_df' = Some(weather_file)
          /\ pc' = "weather_csv"
          /\ UNCHANGED failure
       \/ /\ calls' = Append(calls, "process_weather_data")
          /\ Raise("process_weather_data", "Error")
          /\ UNCHANGED met_file_df
       \/ /\ calls' = calls \o <<"process_weather_data", "create_met_file">>
          /\ met_file_df' = Some(weather_file)
          /\ Raise("create_met_file", "Error")
    /\ UNCHANGED <<inputs, location, location_epsg_new, mean_latitude, day_met_file_df,
                   hour_met_file_df, sumo_emissions_df, highway_gdf, highway_emissions_gdf,
                   greb_args, in_dat_args, stage_kwargs, map_args, writes, disk, out>>

(* lines 72-73: weather_df, the same observations before the met formatting *)
WriteWeatherCsv ==
    /\ pc = "weather_csv"
    /\ WriteToFiles(CsvFile(weather_file), "weather_met")
    /\ UNCHANGED <<inputs, locals, greb_args, in_dat_args, stage_kwargs, map_args, disk, out>>

(* lines 74-75 *)
WriteMetFile ==
    /\ pc = "weather_met"
    /\ WriteToFiles(MetFile(met_file_df[1], None, None), "weather_day")
    /\ UNCHANGED <<inputs, locals, greb_args, in_dat_args, stage_kwargs, map_args, disk, out>>

(* a day without records treated as an error *)
DaySlice_RaisesOnEmpty ==
    /\ pc = "weather_day"
    /\ IF args.weather_day = None
       THEN /\ pc' = "highway"
            /\ UNCHANGED <<day_met_file_df, calls, writes, failure>>
       ELSE LET day_series == SliceByDay(met_file_df[1], args.weather_day[1])
            IN  /\ day_met_file_df' = Some(day_series)
                /\ IF day_series = <<>>
                   THEN /\ Raise("slice_by_day", "Error")
                        /\ UNCHANGED <<calls, writes>>
                   ELSE WriteToFiles(MetFile(day_series, args.weather_day, None),
                                     "weather_hour")
    /\ UNCHANGED <<inputs, location, location_epsg_new, mean_latitude, met_file_df,
                   hour_met_file_df, sumo_emissions_df, highway_gdf, highway_emissions_gdf,
                   greb_args, in_dat_args, stage_kwargs, map_args, disk, out>>

(* the day file written from the whole series *)
DaySlice_WritesRaw ==
    /\ pc = "weather_day"
    /\ IF args.weather_day = None
       THEN /\ pc' = "highway"
            /\ UNCHANGED <<day_met_file_df, calls, writes, failure>>
       ELSE LET day_series == SliceByDay(met_file_df[1], args.weather_day[1])
            IN  /\ day_met_file_df' = Some(day_series)
                /\ WriteToFiles(MetFile(met_file_df[1], args.weather_day, None),
                                "weather_hour")
    /\ UNCHANGED <<inputs, location, location_epsg_new, mean_latitude, met_file_df,
                   hour_met_file_df, sumo_emissions_df, highway_gdf, highway_emissions_gdf,
                   greb_args, in_dat_args, stage_kwargs, map_args, disk, out>>

(* the hour test moved out of the day test, the day slice defaulting to the  *)
(* whole series                                                              *)
DaySlice_HourUnnested ==
    /\ pc = "weather_day"
    /\ IF args.weather_day = None
       THEN /\ pc' = "weather_hour"
            /\ day_met_file_df' = met_file_df
            /\ UNCHANGED <<calls, writes, failure>>
       ELSE LET day_series == SliceByDay(met_file_df[1], args.weather_day[1])
            IN  /\ day_met_file_df' = Some(day_series)
                /\ WriteToFiles(MetFile(day_series, args.weather_day, None), "weather_hour")
    /\ UNCHANGED <<inputs, location, location_epsg_new, mean_latitude, met_file_df,
                   hour_met_file_df, sumo_emissions_df, highway_gdf, highway_emissions_gdf,
                   greb_args, in_dat_args, stage_kwargs, map_args, disk, out>>

(* lines 76-80 *)
DaySlice ==
    /\ pc = "weather_day"
    /\ IF args.weather_day = None
       THEN /\ pc' = "highway"
            /\ UNCHANGED <<day_met_file_df, calls, writes, failure>>
       ELSE LET day_series == SliceByDay(met_file_df[1], args.weather_day[1])
            IN  /\ day_met_file_df' = Some(day_series)
                /\ WriteToFiles(MetFile(day_series, args.weather_day, None), "weather_hour")
    /\ UNCHANGED <<inputs, location, location_epsg_new, mean_latitude, met_file_df,
                   hour_met_file_df, sumo_emissions_df, highway_gdf, highway_emissions_gdf,
                   greb_args, in_dat_args, stage_kwargs, map_args, disk, out>>

(* lines 81-85 *)
HourSlice ==
    /\ pc = "weather_hour"
    /\ IF args.weather_hour = None
       THEN /\ pc' = "highway"
            /\ UNCHANGED <<hour_met_file_df, calls, writes, failure>>
       ELSE LET hour_series == SliceByHour(day_met_file_df[1], args.weather_hour[1])
            IN  /\ hour_met_file_df' = Some(hour_series)
                /\ WriteToFiles(MetFile(hour_series, args.weather_day, args.weather_hour),
                                "highway")
    /\ UNCHANGED <<inputs, location, location_epsg_new, mean_latitude, met_file_df,
                   day_met_file_df, sumo_emissions_df, highway_gdf, highway_emissions_gdf,
                   greb_args, in_dat_args, stage_kwargs, map_args, disk, out>>

(* lines 90-96: the network, its road segments and the emission records *)
ReadHighwayData ==
    /\ pc = "highway"
    /\ args.process \in StageOf.highway
    /\ \/ /\ calls' = calls \o <<"readNet", "process_highway_data",
                                 "process_sumo_edges_emissions_file">>
          /\ highway_gdf' = Some(Segments(net_file))
          /\ sumo_emissions_df' = Some(emissions_file)
          /\ pc' = "highway_combine"
          /\ UNCHANGED failure
       \/ /\ calls' = Append(calls, "readNet")
          /\ Raise("readNet", "Error")
          /\ UNCHANGED <<highway_gdf, sumo_emissions_df>>
       \/ /\ calls' = calls \o <<"readNet", "process_highway_data">>
          /\ Raise("process_highway_data", "Error")
          /\ UNCHANGED <<highway_gdf, sumo_emissions_df>>
       \/ /\ calls' = calls \o <<"readNet", "process_highway_data",
                                 "process_sumo_edges_emissions_file">>
          /\ highway_gdf' = Some(Segments(net_file))
          /\ Raise("process_sumo_edges_emissions_file", "Error")
          /\ UNCHANGED sumo_emissions_df
    /\ UNCHANGED <<inputs, location, location_epsg_new, mean_latitude, met_file_df,
                   day_met_file_df, hour_met_file_df, highway_emissions_gdf,
                   greb_args, in_dat_args, stage_kwargs, map_args, writes, disk, out>>

(* the road segments exported without the join *)
CombineEmissions_Unjoined ==
    /\ pc = "highway_combine"
    /\ calls' = Append(calls, "combine_sumo_emissions_and_highway_data")
    /\ highway_emissions_gdf' =
          Some({[osmid |-> g.osmid, t |-> 1, geometry |-> g.geometry] : g \in highway_gdf[1]})
    /\ pc' = "highway_shp"
    /\ UNCHANGED failure
    /\ UNCHANGED <<inputs, location, location_epsg_new, mean_latitude, met_file_df,
                   day_met_file_df, hour_met_file_df, sumo_emissions_df, highway_gdf,
                   greb_args, in_dat_args, stage_kwargs, map_args, writes, disk, out>>

(* lines 99-100: every table enumerated carries the identifier column, so    *)
(* the join has no malformed input to fail on.                               *)
CombineEmissions ==
    /\ pc = "highway_combine"
    /\ calls' = Append(calls, "combine_sumo_emissions_and_highway_data")
    /\ highway_emissions_gdf' = Some(Join(sumo_emissions_df[1], highway_gdf[1]))
    /\ pc' = "highway_shp"
    /\ UNCHANGED failure
    /\ UNCHANGED <<inputs, location, location_epsg_new, mean_latitude, met_file_df,
                   day_met_file_df, hour_met_file_df, sumo_emissions_df, highway_gdf,
                   greb_args, in_dat_args, stage_kwargs, map_args, writes, disk, out>>

(* lines 102-103 *)
HighwayShapefile ==
    /\ pc = "highway_shp"
    /\ CreateShapefile("highways.shp", "map")
    /\ UNCHANGED <<inputs, locals, greb_args, in_dat_args, stage_kwargs, map_args, writes>>

(* lines 107-114 and 123-130: both corners converted, then the dictionary *)
ConvertLocation(next) ==
    IF ConvertRaises(SourceEpsg, args.epsg)
    THEN /\ calls' = Append(calls, "convert_coordinates")
         /\ Raise("convert_coordinates", "ProjectionError")
         /\ UNCHANGED location_epsg_new
    ELSE /\ calls' = calls \o <<"convert_coordinates", "convert_coordinates">>
         /\ location_epsg_new' = Some(ResolveBoundingBox(location[1], args.epsg))
         /\ pc' = next
         /\ UNCHANGED failure

(* lines 106-114 *)
MapConvert ==
    /\ pc = "map"
    /\ args.process \in StageOf.map
    /\ ConvertLocation("map_create")
    /\ UNCHANGED <<inputs, location, mean_latitude, met_file_df, day_met_file_df,
                   hour_met_file_df, sumo_emissions_df, highway_gdf, highway_emissions_gdf,
                   greb_args, in_dat_args, stage_kwargs, map_args, writes, disk, out>>

(* lines 115-119 *)
CreateGeoreferencedMap ==
    /\ pc = "map_create"
    /\ map_args' = location_epsg_new
    /\ CallWriting("create_georeferenced_map", {"map"}, "gral")
    /\ UNCHANGED <<inputs, locals, greb_args, in_dat_args, stage_kwargs, writes, out>>

(* lines 120-134 *)
GralConvert ==
    /\ pc = "gral"
    /\ args.process \in StageOf.gral
    /\ ConvertLocation("greb")
    /\ UNCHANGED <<inputs, location, mean_latitude, met_file_df, day_met_file_df,
                   hour_met_file_df, sumo_emissions_df, highway_gdf, highway_emissions_gdf,
                   greb_args, in_dat_args, stage_kwargs, map_args, writes, disk, out>>

(* the slice count written as a number that the layer list has outgrown *)
CreateGrebFile_StaleCount ==
    /\ pc = "greb"
    /\ stage_kwargs' = Append(stage_kwargs, {"bbox", "horizontal_slices"})
    /\ greb_args' = Some([bbox |-> location_epsg_new[1],
                          horizontal_slices |-> Len(HorizontalLayers) - 1])
    /\ CallWriting("create_greb_file", {"greb"}, "in_dat")
    /\ UNCHANGED <<inputs, locals, in_dat_args, map_args, writes, out>>

(* the GREB file given the box of the arguments, not the projected one *)
CreateGrebFile_GeographicBox ==
    /\ pc = "greb"
    /\ stage_kwargs' = Append(stage_kwargs, {"bbox", "horizontal_slices"})
    /\ greb_args' = Some([bbox |-> location[1],
                          horizontal_slices |-> Len(HorizontalLayers)])
    /\ CallWriting("create_greb_file", {"greb"}, "in_dat")
    /\ UNCHANGED <<inputs, locals, in_dat_args, map_args, writes, out>>

(* a failure of create_greb_file swallowed: main goes on to the in.dat file *)
CreateGrebFile_Swallowed ==
    /\ pc = "greb"
    /\ stage_kwargs' = Append(stage_kwargs, {"bbox", "horizontal_slices"})
    /\ greb_args' = Some([bbox |-> location_epsg_new[1],
                          horizontal_slices |-> Len(HorizontalLayers)])
    /\ calls' = Append(calls, "create_greb_file")
    /\ \/ disk' = disk \cup {"greb"}
       \/ UNCHANGED disk
    /\ pc' = "in_dat"
    /\ UNCHANGED <<inputs, locals, in_dat_args, map_args, writes, out, failure>>

(* lines 135-136 *)
CreateGrebFile ==
    /\ pc = "greb"
    /\ stage_kwargs' = Append(stage_kwargs, {"bbox", "horizontal_slices"})
    /\ greb_args' = Some([bbox |-> location_epsg_new[1],
                          horizontal_slices |-> Len(HorizontalLayers)])
    /\ CallWriting("create_greb_file", {"greb"}, "in_dat")
    /\ UNCHANGED <<inputs, locals, in_dat_args, map_args, writes, out>>

(* lines 137-139 *)
CreateInDatFile ==
    /\ pc = "in_dat"
    /\ stage_kwargs' = Append(stage_kwargs, {"particles_ps", "dispertion_time", "latitude",
                                             "horizontal_slices"})
    /\ LET latitude == MeanLatitude(location[1], location_epsg_new[1])
       IN  /\ mean_latitude' = Some(latitude)
           /\ in_dat_args' = Some([particles_ps |-> ParticlesPs,
                                   dispertion_time |-> DispertionTime,
                                   latitude |-> latitude,
                                   horizontal_slices |-> HorizontalLayers])
    /\ CallWriting("create_in_dat_file", {"in_dat"}, "meteogpt")
    /\ UNCHANGED <<inputs, location, location_epsg_new, met_file_df, day_met_file_df,
                   hour_met_file_df, sumo_emissions_df, highway_gdf, highway_emissions_gdf,
                   greb_args, map_args, writes, out>>

(* the meteogpt file written and the required text files left out *)
CreateMeteogptFile_SkipsOtherTxt ==
    /\ pc = "meteogpt"
    /\ stage_kwargs' = Append(stage_kwargs, {})
    /\ CallWriting("create_meteogpt_file", {"meteogpt"}, "buildings_file")
    /\ UNCHANGED <<inputs, locals, greb_args, in_dat_args, map_args, writes, out>>

(* lines 140-141 *)
CreateMeteogptFile ==
    /\ pc = "meteogpt"
    /\ stage_kwargs' = Append(stage_kwargs, {})
    /\ CallWriting("create_meteogpt_file", {"meteogpt"}, "other_txt")
    /\ UNCHANGED <<inputs, locals, greb_args, in_dat_args, map_args, writes, out>>

(* lines 142-143 *)
CreateOtherTxtRequieredFiles ==
    /\ pc = "other_txt"
    /\ stage_kwargs' = Append(stage_kwargs, {"pollutant", "n_cores"})
    /\ CallWriting("create_other_txt_requiered_files", {"other_txt"}, "buildings_file")
    /\ UNCHANGED <<inputs, locals, greb_args, in_dat_args, map_args, writes, out>>

(* lines 144-145 *)
CreateBuildingsFile ==
    /\ pc = "buildings_file"
    /\ stage_kwargs' = Append(stage_kwargs, {})
    /\ CallWriting("create_buildings_file", {"buildings_file"}, "line_emissions")
    /\ UNCHANGED <<inputs, locals, greb_args, in_dat_args, map_args, writes, out>>

(* lines 146-147 *)
CreateLineEmissionsFile ==
    /\ pc = "line_emissions"
    /\ stage_kwargs' = Append(stage_kwargs, {"pollutant"})
    /\ CallWriting("create_line_emissions_file", {"line_emissions"}, "optional")
    /\ UNCHANGED <<inputs, locals, greb_args, in_dat_args, map_args, writes, out>>

(* lines 148-149 *)
CreateOtherOptionalFiles ==
    /\ pc = "optional"
    /\ stage_kwargs' = Append(stage_kwargs, {})
    /\ CallWriting("create_other_optional_files", {"optional"}, "return")
    /\ UNCHANGED <<inputs, locals, greb_args, in_dat_args, map_args, writes, out>>

(* an except clause that removes what was written *)
Except_Cleanup ==
    /\ pc = "except"
    /\ caught' = exc
    /\ exc' = None
    /\ out' = Append(out, <<"An error occurred", exc[1]>>)
    /\ returned' = Some("None")
    /\ pc' = "done"
    /\ disk' = {}
    /\ UNCHANGED <<inputs, locals, calls, greb_args, in_dat_args, stage_kwargs, map_args,
                   writes,
                   failed_at, shapefile_failed>>

(* an except clause that prints and raises again *)
Except_Reraise ==
    /\ pc = "except"
    /\ caught' = exc
    /\ out' = Append(out, <<"An error occurred", exc[1]>>)
    /\ returned' = Some("raise")
    /\ pc' = "done"
    /\ UNCHANGED <<inputs, locals, calls, greb_args, in_dat_args, stage_kwargs, map_args,
                   writes, disk,
                   exc, failed_at, shapefile_failed>>

(* lines 152-153: the except clause prints the exception and main returns *)
Except ==
    /\ pc = "except"
    /\ caught' = exc
    /\ exc' = None
    /\ out' = Append(out, <<"An error occurred", exc[1]>>)
    /\ returned' = Some("None")
    /\ pc' = "done"
    /\ UNCHANGED <<inputs, locals, calls, greb_args, in_dat_args, stage_kwargs, map_args,
                   writes, disk,
                   failed_at, shapefile_failed>>

(* the try block ran to its end: main returns None *)
Return ==
    /\ pc = "return"
    /\ returned' = Some("None")
    /\ pc' = "done"
    /\ UNCHANGED <<inputs, locals, effects, exc, caught, failed_at, shapefile_failed>>

Next ==
    \/ Construct
    \/ SkipStage
    \/ ProcessBuildings
    \/ BuildingsShapefile
    \/ ProcessWeatherData
    \/ WriteWeatherCsv
    \/ WriteMetFile
    \/ DaySlice
    \/ HourSlice
    \/ ReadHighwayData
    \/ CombineEmissions
    \/ HighwayShapefile
    \/ MapConvert
    \/ CreateGeoreferencedMap
    \/ GralConvert
    \/ CreateGrebFile
    \/ CreateInDatFile
    \/ CreateMeteogptFile
    \/ CreateOtherTxtRequieredFiles
    \/ CreateBuildingsFile
    \/ CreateLineEmissionsFile
    \/ CreateOtherOptionalFiles
    \/ Except
    \/ Return

Spec == Init /\ [][Next]_vars

----------------------------------------------------------------------------
(* Vocabulary of the properties *)

Range(f) == {f[i] : i \in DOMAIN f}
IsPrefix(a, b) == Len(a) <= Len(b) /\ a = SubSeq(b, 1, Len(a))
Called(call) == call \in Range(calls)
Finished == pc = "done"
NoException == exc = None /\ caught = None

(* the simulator file stages in the order main calls them, and their files *)
SequenceInCode ==
    <<"create_greb_file", "create_in_dat_file", "create_meteogpt_file",
      "create_other_txt_requiered_files", "create_buildings_file",
      "create_line_emissions_file", "create_other_optional_files">>
SequenceInSpec ==
    <<"create_meteogpt_file", "create_greb_file", "create_in_dat_file",
      "create_other_txt_requiered_files", "create_buildings_file",
      "create_line_emissions_file", "create_other_optional_files">>
StageFile ==
    [create_greb_file |-> "greb", create_in_dat_file |-> "in_dat",
     create_meteogpt_file |-> "meteogpt", create_other_txt_requiered_files |-> "other_txt",
     create_buildings_file |-> "buildings_file",
     create_line_emissions_file |-> "line_emissions",
     create_other_optional_files |-> "optional"]
GralCalls == SelectSeq(calls, LAMBDA c : c \in Range(SequenceInCode))
FilesOf(stages) == {StageFile[stages[i]] : i \in DOMAIN stages}

(* C1, as the spec states it: a gral run in which no stage fails invokes the *)
(* stages once each in the order Meteogpt, GREB, InDat, OtherRequiredFiles,  *)
(* Buildings, LineEmissions, OptionalFiles.                                  *)
C1_OrderOfSpec ==
    (args.process = "gral" /\ Finished /\ NoException) => GralCalls = SequenceInSpec

(* C1, amended: the stages invoked so far are always the first stages of     *)
(* GREB, InDat, Meteogpt, OtherRequiredFiles, Buildings, LineEmissions,      *)
(* OptionalFiles, each invoked once and only when the files of all stages    *)
(* before it are written; a gral run without failure invokes all seven.      *)
C1_OrderOfCode ==
    /\ IsPrefix(GralCalls, SequenceInCode)
    /\ \A i \in DOMAIN GralCalls : FilesOf(SubSeq(GralCalls, 1, i - 1)) \subseteq disk
    /\ (GralCalls # <<>>) => args.process = "gral"
    /\ (args.process = "gral" /\ Finished /\ NoException) => GralCalls = SequenceInCode

C1_Witness ==
    args.process = "gral" /\ Finished /\ NoException /\ GralCalls = SequenceInCode

(* C2: whenever create_in_dat_file has been invoked, create_greb_file was    *)
(* invoked before it, did not raise, and its file is on disk.                *)
C2_GrebBeforeInDat ==
    Called("create_in_dat_file") =>
        /\ "greb" \in disk
        /\ failed_at # Some("create_greb_file")
        /\ \E i, j \in DOMAIN calls :
              i < j /\ calls[i] = "create_greb_file" /\ calls[j] = "create_in_dat_file"

C2_Witness == Called("create_in_dat_file") /\ "in_dat" \in disk

(* C3: once a simulator file stage has raised, it is the last call made (no  *)
(* later stage, no second attempt) and the disk holds exactly the files of   *)
(* the stages before it, through the except clause and main's return.        *)
C3_FailFast ==
    \A k \in DOMAIN SequenceInCode :
        failed_at = Some(SequenceInCode[k]) =>
            /\ GralCalls = SubSeq(SequenceInCode, 1, k)
            /\ calls[Len(calls)] = SequenceInCode[k]
            /\ disk = FilesOf(SubSeq(SequenceInCode, 1, k - 1))

C3_Witness ==
    Finished /\ failed_at = Some("create_buildings_file") /\ "other_txt" \in disk

(* C4: the latitude handed to create_in_dat_file is half the sum of the      *)
(* north and south arguments as given (EPSG 4326), whatever the target       *)
(* system; for 10.1 and 10.0 with target 32633 it is 10.05.                  *)
C4_MeanLatitude ==
    in_dat_args # None =>
        /\ 2 * in_dat_args[1].latitude = args.north + args.south
        /\ mean_latitude = Some(in_dat_args[1].latitude)
        /\ (args.north = 1010 /\ args.south = 1000 /\ args.epsg = UtmEpsg)
              => in_dat_args[1].latitude = 1005

C4_Witness ==
    /\ in_dat_args # None
    /\ args.north = 1010 /\ args.south = 1000 /\ args.epsg = UtmEpsg
    /\ in_dat_args[1].latitude = 1005
    /\ 2 * in_dat_args[1].latitude # location_epsg_new[1].north + location_epsg_new[1].south

(* C5: the hour slice of the day slice holds exactly the records of the      *)
(* original series with the given date and the given hour, unmodified and    *)
(* in their order, and that is the series written to the day-and-hour file.  *)
DayAndHour(series, day, hour) ==
    SelectSeq(series, LAMBDA r : r.fecha = day /\ r.hora = hour)
C5_SliceComposition ==
    hour_met_file_df # None =>
        LET both == DayAndHour(weather_file, args.weather_day[1], args.weather_hour[1])
        IN  /\ hour_met_file_df[1] = both
            /\ \A i \in DOMAIN writes :
                  writes[i].hour # None => writes[i].data = both

C5_Witness ==
    /\ hour_met_file_df # None
    /\ Len(hour_met_file_df[1]) = 1
    /\ Len(day_met_file_df[1]) = 2
    /\ Len(met_file_df[1]) = 3
    /\ \E i \in DOMAIN met_file_df[1] :
          /\ met_file_df[1][i].hora = args.weather_hour[1]
          /\ met_file_df[1][i].fecha # args.weather_day[1]
    /\ \E i \in DOMAIN writes : writes[i].hour # None

(* C6: an hour-sliced series exists or is written only when a day was given  *)
(* and the day slice exists, it is the hour slice of that day slice, and     *)
(* the day file is written before it; with weather_hour set and weather_day  *)
(* not, no hour slice is computed or written.                                *)
HourWrites == {i \in DOMAIN writes : writes[i].hour # None}
C6_HourWithinDay ==
    /\ (hour_met_file_df # None \/ HourWrites # {}) =>
          /\ args.weather_day # None
          /\ day_met_file_df # None
          /\ hour_met_file_df = Some(SliceByHour(day_met_file_df[1], args.weather_hour[1]))
          /\ \A i \in HourWrites :
                /\ writes[i].data = hour_met_file_df[1]
                /\ \E j \in 1..(i - 1) :
                      /\ writes[j].day = args.weather_day /\ writes[j].hour = None
                      /\ writes[j].data = day_met_file_df[1]
    /\ (args.weather_hour # None /\ args.weather_day = None) =>
          hour_met_file_df = None /\ HourWrites = {}

C6_Witness ==
    /\ Finished /\ NoException
    /\ args.process = "weather"
    /\ args.weather_hour # None /\ args.weather_day = None
    /\ Len(writes) = 2 /\ Len(weather_file) > 0

(* C7: a failure inside create_shapefile is printed there and raises nothing *)
(* in main: the stage after the shapefile is started, and in a run with      *)
(* process 'all' in which nothing else raises, weather, highway and map run  *)
(* after a buildings shapefile failure and map after a highway one.          *)
C7_ShapefileFailureContained ==
    /\ failed_at # Some("create_shapefile")
    /\ \A f \in shapefile_failed :
          /\ f \notin disk
          /\ <<"Failed to create shapefile">> \in Range(out)
    /\ (calls # <<>> /\ calls[Len(calls)] = "create_shapefile") =>
          exc = None /\ pc # "except"
    /\ (args.process = "all" /\ Finished) =>
          /\ "buildings.shp" \in shapefile_failed => Called("process_weather_data")
          /\ "highways.shp" \in shapefile_failed => Called("convert_coordinates")
    /\ (args.process = "all" /\ Finished /\ NoException /\ shapefile_failed # {}) =>
          /\ Called("create_georeferenced_map") /\ "map" \in disk
          /\ Called("combine_sumo_emissions_and_highway_data")
          /\ Called("create_met_file")

C7_Witness ==
    /\ args.process = "all" /\ Finished /\ NoException
    /\ shapefile_failed = {"buildings.shp", "highways.shp"}
    /\ "map" \in disk

(* C8: main never ends by raising: an exception in flight is always on its   *)
(* way to the except clause, main can always take a step until it has        *)
(* returned, and it returns None with the diagnostic printed last, whatever  *)
(* the call that raised and whatever was written before.                     *)
C8_NothingPropagates ==
    /\ returned \in {None, Some("None")}
    /\ exc # None => pc = "except"
    /\ ~Finished => ENABLED Next
    /\ Finished =>
          /\ returned = Some("None")
          /\ exc = None
          /\ failed_at # None =>
                /\ caught # None
                /\ out[Len(out)] = <<"An error occurred", caught[1]>>

C8_Witness ==
    /\ Finished /\ returned = Some("None")
    /\ args.process = "gral"
    /\ caught = Some("FileWriteError") /\ failed_at = Some("create_in_dat_file")
    /\ "greb" \in disk

(* C9: no stage receives a projected bounding box with north <= south or     *)
(* east <= west.                                                             *)
WellOrdered(bbox) == bbox.north > bbox.south /\ bbox.east > bbox.west
C9_OrderedBoxOnly ==
    /\ greb_args # None => WellOrdered(greb_args[1].bbox)
    /\ map_args # None => WellOrdered(map_args[1])

(* C10: the joined table holds an identifier exactly when both the emission  *)
(* records and the road segments hold it, with one row per emission record   *)
(* of a kept segment; an empty intersection gives the empty table and no     *)
(* exception; both inputs are as read; identifiers {1,2,3} joined with       *)
(* segments {2,3,4} give {2,3}.                                              *)
IdsOf(table) == {r.osmid : r \in table}
Conversions == {i \in DOMAIN calls : calls[i] = "convert_coordinates"}
ResolvedOnceBeforeStages ==
    /\ Cardinality(Conversions) <= 2
    /\ GralCalls # <<>> =>
          /\ Conversions = {1, 2}
          /\ location_epsg_new = Some(ResolveBoundingBox(location[1], args.epsg))
    /\ greb_args # None => greb_args[1].bbox = location_epsg_new[1]
C11_EveryStageConsumesBox ==
    args.process = "gral" =>
        /\ ResolvedOnceBeforeStages
        /\ \A i \in DOMAIN stage_kwargs : "bbox" \in stage_kwargs[i]

(* C11, amended: the box is resolved once, before the first stage, stays as  *)
(* resolved, and is handed to the GREB stage and to no other stage.          *)
C11_BoxResolvedOnce ==
    args.process = "gral" =>
        /\ ResolvedOnceBeforeStages
        /\ Len(stage_kwargs) = Len(GralCalls)
        /\ \A i \in DOMAIN stage_kwargs :
              "bbox" \in stage_kwargs[i] <=> GralCalls[i] = "create_greb_file"

C11_Witness ==
    /\ args.process = "gral" /\ Finished /\ NoException
    /\ args.epsg = UtmEpsg
    /\ Len(stage_kwargs) = 7
    /\ greb_args[1].bbox = location_epsg_new[1]
    /\ greb_args[1].bbox # location[1]

(* C12, as the spec states it: every series handed to write_to_files is the  *)
(* output of the day slice or of the hour slice.                             *)
IsSliceOutput(series) ==
    \/ day_met_file_df # None /\ series = day_met_file_df[1]
    \/ hour_met_file_df # None /\ series = hour_met_file_df[1]
C12_OnlySlicesWritten ==
    \A i \in DOMAIN writes : IsSliceOutput(writes[i].data)

(* C12, amended: the file of a day holds the day slice and the file of a day *)
(* and hour the hour slice; the whole series goes to the writer for the two  *)
(* files without a day, the .csv and the .met, which are written first.      *)
C12_SlicesInWindowedFiles ==
    /\ \A i \in DOMAIN writes :
          LET w == writes[i]
          IN  /\ w.day = None =>
                    /\ w.hour = None /\ w.data = weather_file
                    /\ w.ext = (IF i = 1 THEN "csv" ELSE "met")
                    /\ i <= 2
              /\ w.day # None =>
                    /\ i > 2 /\ w.ext = "met" /\ w.day = args.weather_day
                    /\ day_met_file_df = Some(SliceByDay(weather_file, w.day[1]))
                    /\ w.hour = None => w.data = day_met_file_df[1]
                    /\ w.hour # None =>
                          /\ w.hour = args.weather_hour
                          /\ hour_met_file_df # None /\ w.data = hour_met_file_df[1]
    /\ met_file_df # None => met_file_df = Some(weather_file)

C12_Witness ==
    /\ Len(writes) = 4
    /\ writes[2].data = weather_file
    /\ writes[3].data # weather_file
    /\ writes[4].data # writes[3].data
    /\ writes[4].data # <<>>

(* C13: a day slice or hour slice without records is the empty series, which *)
(* is handed to write_to_files like any other (nothing but the writer itself *)
(* can raise at that point); the original series stays as read; and in a run *)
(* with process 'all' the highway stage is started after the weather stage,  *)
(* and highway and map run when nothing else raises.                         *)
DayEmpty == day_met_file_df = Some(<<>>)
HourEmpty == hour_met_file_df = Some(<<>>)
WriterRaisedAfter(n) == failed_at = Some("write_to_files") /\ Len(writes) = n
C13_EmptySliceIsNoError ==
    /\ DayEmpty =>
          /\ met_file_df = Some(weather_file)
          /\ \/ Len(writes) >= 3 /\ writes[3] = MetFile(<<>>, args.weather_day, None)
             \/ WriterRaisedAfter(2)
    /\ HourEmpty =>
          /\ met_file_df = Some(weather_file)
          /\ day_met_file_df = Some(SliceByDay(weather_file, args.weather_day[1]))
          /\ \/ Len(writes) = 4
                /\ writes[4] = MetFile(<<>>, args.weather_day, args.weather_hour)
             \/ WriterRaisedAfter(3)
    /\ (args.process = "all" /\ Finished /\ (DayEmpty \/ HourEmpty)) =>
          /\ failed_at # Some("write_to_files") => Called("readNet")
          /\ NoException =>
                /\ Called("combine_sumo_emissions_and_highway_data")
                /\ Called("create_georeferenced_map")

C13_Witness ==
    /\ args.process = "all" /\ Finished /\ NoException
    /\ weather_file # <<>>
    /\ DayEmpty /\ HourEmpty
    /\ Len(writes) = 4 /\ writes[3].data = <<>> /\ writes[4].data = <<>>
    /\ "map" \in disk

(* C14: the slice count handed to create_greb_file is the length of the      *)
(* layer list handed to create_in_dat_file, and that list is the run's one   *)
(* ascending list of altitudes.                                              *)
Ascending(layers) == \A i, j \in DOMAIN layers : i < j => layers[i] < layers[j]
C14_LayerCountMatchesList ==
    /\ greb_args # None =>
          /\ greb_args[1].horizontal_slices = Len(HorizontalLayers)
          /\ "horizontal_slices" \in stage_kwargs[1]
    /\ in_dat_args # None =>
          /\ greb_args # None
          /\ greb_args[1].horizontal_slices = Len(in_dat_args[1].horizontal_slices)
          /\ in_dat_args[1].horizontal_slices = HorizontalLayers
          /\ Ascending(in_dat_args[1].horizontal_slices)
          /\ "horizontal_slices" \in stage_kwargs[2]

C14_Witness ==
    /\ in_dat_args # None /\ greb_args # None
    /\ greb_args[1].horizontal_slices = 5
    /\ Len(in_dat_args[1].horizontal_slices) = 5
    /\ "in_dat" \in disk

(* C15: the calls of a run are those of the stages its process value         *)
(* selects: one stage for 'buildings', 'weather', 'highway' and 'map';       *)
(* buildings, weather, highway, map in that order for 'all'; the simulator   *)
(* file sequence exactly for 'gral', never together with another stage; and  *)
(* for any other value no call, no file and, the modules built, no message.  *)
CallsOfStage ==
    [buildings |-> {"process_buildings", "create_shapefile"},
     weather |-> {"process_weather_data", "create_met_file", "write_to_files"},
     highway |-> {"readNet", "process_highway_data", "process_sumo_edges_emissions_file",
                  "combine_sumo_emissions_and_highway_data", "create_shapefile"},
     map |-> {"convert_coordinates", "create_georeferenced_map"},
     gral |-> {"convert_coordinates"} \cup Range(SequenceInCode)]
StagesOfProcess(process) ==
    CASE process = "all" -> <<"buildings", "weather", "highway", "map">>
      [] process \in {"buildings", "weather", "highway", "map", "gral"} -> <<process>>
      [] OTHER -> <<>>
FirstCall ==
    [buildings |-> "process_buildings", weather |-> "process_weather_data",
     highway |-> "readNet", map |-> "convert_coordinates", gral |-> "convert_coordinates"]
StagesStarted ==
    LET first == {i \in DOMAIN calls :
                     /\ calls[i] \in Range(FirstCall)
                     /\ \A j \in 1..(i - 1) : calls[j] # calls[i]}
    IN  Cardinality(first)
C15_ProcessSelectsStages ==
    LET stages == StagesOfProcess(args.process)
    IN  /\ Range(calls) \subseteq UNION {CallsOfStage[stages[i]] : i \in DOMAIN stages}
        /\ StagesStarted <= Len(stages)
        /\ \A i \in 1..StagesStarted : Called(FirstCall[stages[i]])
        /\ \A i, j \in DOMAIN stages :
              (i < j /\ Called(FirstCall[stages[j]])) =>
                  \E m, n \in DOMAIN calls :
                      m < n /\ calls[m] = FirstCall[stages[i]]
                            /\ calls[n] = FirstCall[stages[j]]
        /\ (Finished /\ failed_at = None) =>
              /\ StagesStarted = Len(stages)
              /\ args.process = "gral" <=> GralCalls = SequenceInCode
        /\ GralCalls # <<>> =>
              /\ args.process = "gral"
              /\ map_args = None /\ writes = <<>> /\ shapefile_failed = {}
              /\ disk \subseteq FilesOf(SequenceInCode)
        /\ stages = <<>> =>
              /\ disk = {} /\ writes = <<>>
              /\ failed_at \in {None, Some("construct")}
              /\ (Finished /\ failed_at = None) => out = <<>> /\ returned = Some("None")

C15_Witness ==
    /\ args.process = "all" /\ Finished /\ NoException
    /\ StagesStarted = 4
    /\ {"buildings.shp", "highways.shp", "map"} \subseteq disk
    /\ Len(writes) >= 2
    /\ GralCalls = <<>>
====
